---- MODULE Spec2Model ----
(***************************************************************************)
(* usvg-remote-resolvers: resolution of <image href="..."> strings.        *)
(*                                                                         *)
(* The module models, from the Rust sources,                               *)
(*   - the image-kind classifier (src/utils.rs),                           *)
(*   - the HrefStringResolver trait, DefaultResolver and FallbackResolver  *)
(*     (src/lib.rs),                                                       *)
(*   - the blocking HTTP resolver (src/reqwest_blocking.rs),               *)
(*   - the asynchronous resolvers and their blocking bridge                *)
(*     (src/reqwest.rs, src/reqwest_middleware/mod.rs).                    *)
(*                                                                         *)
(* Strings the code inspects character by character (hrefs) are sequences  *)
(* of one-character strings.  Option<T> is a sequence of length at most    *)
(* one: None is << >> and Some(x) is <<x>>.                                *)
(***************************************************************************)
EXTENDS Integers, Sequences, FiniteSets, TLC

VARIABLES
    resolver,   \* the resolver value built by the constructors (immutable)
    runtime,    \* execution context the host calls from
    files,      \* what the host toolkit's built-in resolver finds locally
    server,     \* per href: the outcomes a GET of it can have
    installed,  \* set_into_options has moved the resolver into Options
    probes,     \* number of direct is_target calls made before installing
    lastProbe,  \* answer of the last direct is_target call
    hostPc,     \* per call: position of the installed callable
    href,       \* per call: the href the host passed
    result,     \* per call: what the callable returned
    stack,      \* per call: get_image_kind activations, innermost first
    ret,        \* per call: value returned by the activation that just ended
    log,        \* per call: get_image_kind call / return events, in order
    http,       \* per call: response held by the blocking resolver
    chan,       \* per call: the one-shot channel of the async bridge
    task,       \* per call: the spawned background task
    cls         \* classifier harness: inputs and outputs of the pure functions

evalVars == <<stack, ret, log>>
hostVars == <<hostPc, href, result>>
envVars == <<resolver, runtime, files, server>>
probeVars == <<installed, probes, lastProbe>>
bridgeVars == <<chan, task>>
vars == <<resolver, runtime, files, server, installed, probes, lastProbe, hostPc, href,
          result, stack, ret, log, http, chan, task, cls>>

(***************************************************************************)
(* Bounds                                                                  *)
(***************************************************************************)
MaxBodyLen == 1
MaxProbes == 1
MaxDots == 2

(***************************************************************************)
(* Option and string helpers                                               *)
(***************************************************************************)
None == << >>
Some(x) == <<x>>
IsSome(o) == o # << >>

\* Option<Option<T>>::flatten
Flatten(oo) == IF oo = None THEN None ELSE oo[1]

\* bool::then(f): Some(f()) when the receiver is true
Then(b, v) == IF b THEN Some(v) ELSE None

\* Option<&str>::unwrap_or_default
UnwrapOrDefault(o) == IF o = None THEN "" ELSE o[1]

\* str::starts_with
StartsWith(s, p) == Len(s) >= Len(p) /\ SubSeq(s, 1, Len(p)) = p

\* faulty variant: str::split_once, which splits at the FIRST occurrence
SplitOnceFirst(s, ch) ==
    LET at == {i \in 1..Len(s) : s[i] = ch}
    IN  IF at = {} THEN None
        ELSE LET i == CHOOSE k \in at : \A j \in at : k <= j
             IN  Some(<<SubSeq(s, 1, i - 1), SubSeq(s, i + 1, Len(s))>>)

\* str::rsplit_once: split at the LAST occurrence of ch
RSplitOnce(s, ch) ==
    LET at == {i \in 1..Len(s) : s[i] = ch}
    IN  IF at = {} THEN None
        ELSE LET i == CHOOSE k \in at : \A j \in at : j <= k
             IN  Some(<<SubSeq(s, 1, i - 1), SubSeq(s, i + 1, Len(s))>>)

(***************************************************************************)
(* src/utils.rs: ImageKindTypes                                            *)
(***************************************************************************)
ImageKindTypes == {"Jpeg", "Png", "Gif", "Webp", "Svg"}

ExtPng == <<"p", "n", "g">>
ExtJpg == <<"j", "p", "g">>
ExtJpeg == <<"j", "p", "e", "g">>
ExtWebp == <<"w", "e", "b", "p">>
ExtGif == <<"g", "i", "f">>
ExtSvg == <<"s", "v", "g">>

\* the inner match on the extension
MatchExtension(ext) ==
    CASE ext = ExtPng -> Some("Png")
      [] ext = ExtJpg \/ ext = ExtJpeg -> Some("Jpeg")
      [] ext = ExtWebp -> Some("Webp")
      [] ext = ExtGif -> Some("Gif")
      [] ext = ExtSvg -> Some("Svg")
      [] OTHER -> None

\* faulty variant: the extension is consulted before the declared type
get_image_type_extension_first(content_type, h) ==
    LET sp == RSplitOnce(h, ".")
        byExt == IF sp = None THEN None ELSE MatchExtension(sp[1][2])
        ct == UnwrapOrDefault(content_type)
    IN  IF byExt # None THEN byExt
        ELSE CASE ct = "image/png" -> Some("Png")
               [] ct = "image/jpeg" -> Some("Jpeg")
               [] ct = "image/webp" -> Some("Webp")
               [] ct = "image/gif" -> Some("Gif")
               [] ct = "image/svg+xml" -> Some("Svg")
               [] OTHER -> None

get_image_type(content_type, h) ==
    LET ct == UnwrapOrDefault(content_type)
    IN  CASE ct = "image/png" -> Some("Png")
          [] ct = "image/jpeg" -> Some("Jpeg")
          [] ct = "image/webp" -> Some("Webp")
          [] ct = "image/gif" -> Some("Gif")
          [] ct = "image/svg+xml" -> Some("Svg")
          [] OTHER ->
                LET sp == RSplitOnce(h, ".")
                IN  IF sp = None THEN None ELSE MatchExtension(sp[1][2])

\* usvg::ImageKind: the raster kinds hold the byte buffer; SVG holds the tree
\* parsed from the buffer (tree = TRUE marks a parsed document of data)
ImageKind(kind, data, tree) == [kind |-> kind, data |-> data, tree |-> tree]

\* faulty variant: the last byte of the buffer is lost
to_image_kind_truncating(tag, vec, parseOk) ==
    LET cut == SubSeq(vec, 1, Len(vec) - 1)
    IN  CASE tag = "Jpeg" -> Some(ImageKind("JPEG", cut, FALSE))
          [] tag = "Png" -> Some(ImageKind("PNG", cut, FALSE))
          [] tag = "Gif" -> Some(ImageKind("GIF", cut, FALSE))
          [] tag = "Webp" -> Some(ImageKind("WEBP", cut, FALSE))
          [] tag = "Svg" -> IF parseOk THEN Some(ImageKind("SVG", cut, TRUE)) ELSE None

\* parseOk: whether usvg::Tree::from_data accepts the buffer
to_image_kind(tag, vec, parseOk) ==
    CASE tag = "Jpeg" -> Some(ImageKind("JPEG", vec, FALSE))
      [] tag = "Png" -> Some(ImageKind("PNG", vec, FALSE))
      [] tag = "Gif" -> Some(ImageKind("GIF", vec, FALSE))
      [] tag = "Webp" -> Some(ImageKind("WEBP", vec, FALSE))
      [] tag = "Svg" -> IF parseOk THEN Some(ImageKind("SVG", vec, TRUE)) ELSE None


(***************************************************************************)
(* Resolver values (src/lib.rs, src/reqwest*.rs)                           *)
(*                                                                         *)
(* A leaf is one strategy; a "fallback" node is a FallbackResolver.  The   *)
(* trait is public, so besides the four strategies of the crate a leaf can *)
(* be any implementation of HrefStringResolver: a Stub, whose is_target    *)
(* answer is the field claims and whose get_image_kind result is chosen    *)
(* when it returns.                                                        *)
(***************************************************************************)
Leaf(type, id, claims) == [node |-> "leaf", type |-> type, id |-> id, claims |-> claims]

Stub(id, claims) == Leaf("Stub", id, claims)
DefaultResolver == Leaf("Default", "Default", TRUE)
BlockingReqwestResolver == Leaf("Blocking", "Blocking", TRUE)
ReqwestResolver == Leaf("Reqwest", "Reqwest", TRUE)
ReqwestWithMiddlewareResolver == Leaf("Middleware", "Middleware", TRUE)

\* the two resolvers that bridge an asynchronous client
IsAsyncBridge(r) == r.node = "leaf" /\ r.type \in {"Reqwest", "Middleware"}
IsHttp(r) == r.node = "leaf" /\ r.type \in {"Blocking", "Reqwest", "Middleware"}

FallbackResolver_new(primary, fallback) ==
    [node |-> "fallback", primary |-> primary, fallback |-> fallback]

with_fallback(self, fallback) == FallbackResolver_new(self, fallback)

\* From<(T, U)>
From2(t) == [node |-> "fallback", primary |-> t[1], fallback |-> t[2]]

\* faulty variant: the second strategy is given the highest priority
From3_second_first(t) ==
    [node |-> "fallback", primary |-> t[2], fallback |-> From2(<<t[1], t[3]>>)]

\* From<(T, U, V)>
From3(t) == [node |-> "fallback", primary |-> t[1], fallback |-> From2(<<t[2], t[3]>>)]

SchemeHttps == <<"h", "t", "t", "p", "s", ":", "/", "/">>
SchemeHttp == <<"h", "t", "t", "p", ":", "/", "/">>

\* is_target of the three HTTP-backed resolvers (the same code in each)
Http_is_target(h) == StartsWith(h, SchemeHttps) \/ StartsWith(h, SchemeHttp)

DefaultResolver_is_target(h) == TRUE

\* is_target of a leaf strategy
Leaf_is_target(r, h) ==
    CASE r.type = "Default" -> DefaultResolver_is_target(h)
      [] r.type = "Stub" -> r.claims
      [] OTHER -> Http_is_target(h)

\* faulty variant: both members must claim the href
FallbackResolver_is_target_both(p, f) == p /\ f

\* FallbackResolver::is_target, given the answers of its two members
FallbackResolver_is_target(p, f) == p \/ f

RECURSIVE is_target(_, _)
is_target(r, h) ==
    IF r.node = "leaf" THEN Leaf_is_target(r, h)
    ELSE FallbackResolver_is_target(is_target(r.primary, h), is_target(r.fallback, h))

(***************************************************************************)
(* Inputs of the classifier harness                                        *)
(***************************************************************************)
Bytes == {0, 255}

RECURSIVE SeqsUpTo(_, _)
SeqsUpTo(S, n) ==
    IF n = 0 THEN {<< >>}
    ELSE LET shorter == SeqsUpTo(S, n - 1)
         IN  shorter \cup {Append(s, x) : s \in shorter, x \in S}

Bodies == SeqsUpTo(Bytes, MaxBodyLen)

RecognizedMime == {"image/png", "image/jpeg", "image/webp", "image/gif", "image/svg+xml"}
OtherMime == {"", "text/html", "IMAGE/PNG", "image/jpg", "image/png; charset=utf-8"}
ContentTypes == {None} \cup {Some(m) : m \in RecognizedMime \cup OtherMime}

Words == {ExtPng, ExtJpg, ExtJpeg, ExtWebp, ExtGif, ExtSvg,
          <<"P", "N", "G">>, <<"t", "x", "t">>, << >>, <<"p", "n", "g", "/", "a">>}
Stems == {<<"a">>, SchemeHttp \o <<"h">>}

RECURSIVE HrefsWithDots(_)
HrefsWithDots(n) ==
    IF n = 0 THEN Stems
    ELSE {h \o <<".">> \o w : h \in HrefsWithDots(n - 1), w \in Words}

ClassifyHrefs == UNION {HrefsWithDots(n) : n \in 0..MaxDots}

\* a fetch in progress: the response received and the tag chosen for it
NoFetch == [resp |-> None, image_type |-> None, body |-> None]
\* tokio::sync::oneshot channel: "open" until the sender sends ("sent") or is
\* dropped unsent ("closed"); "rx_dropped" once the receiver is gone
NoChannel == [state |-> "none", msg |-> None]
\* the future given to tokio::spawn
NoTask == [pc |-> "none", href |-> << >>, resp |-> None, image_type |-> None, body |-> None]

ClsOff == [phase |-> "off", content_type |-> None, href |-> << >>, tag |-> None,
           vec |-> << >>, parseOk |-> FALSE, kind |-> None]

(***************************************************************************)
(* Classifier harness: the two pure functions applied to bounded inputs    *)
(***************************************************************************)
ClsClassify ==
    /\ cls.phase = "input"
    /\ cls' = [cls EXCEPT !.phase = "classified",
                          !.tag = get_image_type(cls.content_type, cls.href)]
    /\ UNCHANGED <<envVars, probeVars, hostVars, evalVars, http, bridgeVars>>

ClsMaterialize ==
    /\ cls.phase = "classified"
    /\ IsSome(cls.tag)
    /\ \E vec \in Bodies, parseOk \in BOOLEAN :
          cls' = [cls EXCEPT !.phase = "materialized", !.vec = vec, !.parseOk = parseOk,
                             !.kind = to_image_kind(cls.tag[1], vec, parseOk)]
    /\ UNCHANGED <<envVars, probeVars, hostVars, evalVars, http, bridgeVars>>

Calls == {"c1", "c2"}

InitClassify ==
    /\ cls \in {[ClsOff EXCEPT !.phase = "input", !.content_type = ct, !.href = h] :
                   ct \in ContentTypes, h \in ClassifyHrefs}
    /\ resolver = DefaultResolver
    /\ runtime = "none"
    /\ files = << >>
    /\ server = << >>
    /\ installed = "none"
    /\ probes = 0
    /\ lastProbe = None
    /\ hostPc = [c \in Calls |-> "off"]
    /\ href = [c \in Calls |-> << >>]
    /\ result = [c \in Calls |-> None]
    /\ stack = [c \in Calls |-> << >>]
    /\ ret = [c \in Calls |-> None]
    /\ log = [c \in Calls |-> << >>]
    /\ http = [c \in Calls |-> NoFetch]
    /\ chan = [c \in Calls |-> NoChannel]
    /\ task = [c \in Calls |-> NoTask]

NextClassify == ClsClassify \/ ClsMaterialize

SpecClassify == InitClassify /\ [][NextClassify]_vars


(***************************************************************************)
(* Environment of a resolution: hrefs, HTTP responses, local files         *)
(***************************************************************************)
HrefHttpPng == SchemeHttp \o <<"a", ".", "p", "n", "g">>
HrefHttpsSvg == SchemeHttps \o <<"a", ".", "s", "v", "g">>
HrefHttpNoExt == SchemeHttp \o <<"a">>
HrefLocalPng == <<".", "/", "a", ".", "p", "n", "g">>
HrefUpperScheme == <<"H", "T", "T", "P", ":", "/", "/", "a", ".", "p", "n", "g">>
Hrefs == {HrefHttpPng, HrefHttpsSvg, HrefHttpNoExt, HrefLocalPng, HrefUpperScheme}

\* what reqwest hands back for a GET that completed: the status line, the
\* content-type header if any, and the body
Statuses == {200, 404}
RespContentTypes == {None, Some("image/png"), Some("image/svg+xml"), Some("text/html")}
Responses == [status : Statuses, content_type : RespContentTypes, body : Bodies]

\* client.get(href).send(): Err(_) for a transport failure, otherwise Ok(resp)
\* whatever the status of resp; .ok() turns the Result into an Option
SendResults == {None} \cup {Some(r) : r \in Responses}

\* a server about which nothing is known: any outcome for any href
AnyServer == [h \in Hrefs |-> SendResults]

\* the host toolkit's built-in resolver: the file at a local path, if any
LocalFile == ImageKind("PNG", <<255>>, FALSE)
NoFiles == [h \in Hrefs |-> None]
OneFile == [h \in Hrefs |-> IF h = HrefLocalPng THEN Some(LocalFile) ELSE None]

\* usvg::ImageHrefResolver::default_string_resolver()(href, options)
default_string_resolver(h, fs) == fs[h]

\* DefaultResolver::get_image_kind
DefaultResolver_get_image_kind(h, fs) == default_string_resolver(h, fs)

\* the value a Stub strategy yields when it succeeds
StubByte(id) == CASE id = "A" -> 1 [] id = "B" -> 2 [] OTHER -> 3
StubValue(id) == ImageKind("PNG", <<StubByte(id)>>, FALSE)

(***************************************************************************)
(* Activations of get_image_kind                                           *)
(***************************************************************************)
Frame(node, pc) == [node |-> node, pc |-> pc]
Event(ev, who, val) == [ev |-> ev, who |-> who, val |-> val]
Top(c) == Head(stack[c])
SetPc(st, pc) == <<[Head(st) EXCEPT !.pc = pc]>> \o Tail(st)
InCall(c) == hostPc[c] \in {"running", "direct"}
Active(c) == InCall(c) /\ stack[c] # << >>

\* the activation on top returns v to its caller
Returns(c, v) ==
    /\ stack' = [stack EXCEPT ![c] = Tail(@)]
    /\ ret' = [ret EXCEPT ![c] = Some(v)]
    /\ log' = [log EXCEPT ![c] = Append(@, Event("ret", Top(c).node, v))]

\* the activation on top moves to pc and calls node.get_image_kind
CallsInto(c, node, pc) ==
    /\ stack' = [stack EXCEPT ![c] = <<Frame(node, "enter")>> \o SetPc(@, pc)]
    /\ ret' = [ret EXCEPT ![c] = None]
    /\ log' = [log EXCEPT ![c] = Append(@, Event("call", node, None))]

(***************************************************************************)
(* src/lib.rs: into_fn, set_into_options, is_target called directly        *)
(***************************************************************************)
\* which callable into_fn yields: the trait's closure, or, for
\* DefaultResolver, the host's default_string_resolver itself
into_fn(r) == IF r = DefaultResolver THEN "default_string_resolver" ELSE "closure"

\* faulty variant: the closure does not consult is_target
into_fn_guard_always(r, h) == TRUE

\* the condition of the closure's if
into_fn_guard(r, h) == is_target(r, h)

\* resolver.is_target(href) called by the owner before the resolver is moved
ProbeIsTarget ==
    /\ installed = "none"
    /\ probes < MaxProbes
    /\ \E c \in Calls :
          /\ hostPc[c] = "idle"
          /\ lastProbe' = Some(<<href[c], is_target(resolver, href[c])>>)
    /\ probes' = probes + 1
    /\ UNCHANGED <<envVars, installed, hostVars, evalVars, http, bridgeVars, cls>>

\* set_into_options takes the resolver by value: no borrow of it is live
SetIntoOptions ==
    /\ installed = "none"
    /\ \A c \in Calls : hostPc[c] # "direct"
    /\ installed' = into_fn(resolver)
    /\ UNCHANGED <<envVars, probes, lastProbe, hostVars, evalVars, http, bridgeVars, cls>>

\* the closure of the trait's into_fn, up to its call of get_image_kind
InvokeClosure(c) ==
    /\ installed = "closure"
    /\ hostPc[c] = "idle"
    /\ IF into_fn_guard(resolver, href[c])
       THEN /\ hostPc' = [hostPc EXCEPT ![c] = "running"]
            /\ stack' = [stack EXCEPT ![c] = <<Frame(resolver, "enter")>>]
            /\ log' = [log EXCEPT ![c] = Append(@, Event("call", resolver, None))]
            /\ UNCHANGED <<result, ret>>
       ELSE /\ hostPc' = [hostPc EXCEPT ![c] = "done"]
            /\ result' = [result EXCEPT ![c] = Some(None)]
            /\ UNCHANGED <<stack, log, ret>>
    /\ UNCHANGED <<envVars, probeVars, href, http, bridgeVars, cls>>

\* the closure returns what get_image_kind returned
ClosureReturn(c) ==
    /\ hostPc[c] = "running"
    /\ stack[c] = << >>
    /\ IsSome(ret[c])
    /\ result' = [result EXCEPT ![c] = ret[c]]
    /\ hostPc' = [hostPc EXCEPT ![c] = "done"]
    /\ UNCHANGED <<envVars, probeVars, href, evalVars, http, bridgeVars, cls>>

\* resolver.get_image_kind(href, options) called by the owner itself: the
\* trait method is public and does not consult is_target
CallGetImageKind(c) ==
    /\ installed = "none"
    /\ hostPc[c] = "idle"
    /\ hostPc' = [hostPc EXCEPT ![c] = "direct"]
    /\ stack' = [stack EXCEPT ![c] = <<Frame(resolver, "enter")>>]
    /\ log' = [log EXCEPT ![c] = Append(@, Event("call", resolver, None))]
    /\ UNCHANGED <<envVars, probeVars, href, result, ret, http, bridgeVars, cls>>

GetImageKindReturn(c) ==
    /\ hostPc[c] = "direct"
    /\ stack[c] = << >>
    /\ IsSome(ret[c])
    /\ result' = [result EXCEPT ![c] = ret[c]]
    /\ hostPc' = [hostPc EXCEPT ![c] = "direct_done"]
    /\ UNCHANGED <<envVars, probeVars, href, evalVars, http, bridgeVars, cls>>

\* DefaultResolver::into_fn: the host's built-in resolver is the callable
InvokeDefaultFn(c) ==
    /\ installed = "default_string_resolver"
    /\ hostPc[c] = "idle"
    /\ result' = [result EXCEPT ![c] = Some(default_string_resolver(href[c], files))]
    /\ hostPc' = [hostPc EXCEPT ![c] = "done"]
    /\ UNCHANGED <<envVars, probeVars, href, evalVars, http, bridgeVars, cls>>

(***************************************************************************)
(* src/lib.rs: FallbackResolver::get_image_kind                            *)
(***************************************************************************)
\* faulty variants: the closure always runs / never runs
or_else_always(o) == TRUE
or_else_never(o) == FALSE

\* Option::or_else runs its closure exactly when the receiver is None
or_else_runs(o) == o = None

\* the or_else closure: fallback.is_target(href).then(|| ...).flatten()
OrElse(c) ==
    IF is_target(Top(c).node.fallback, href[c])
    THEN CallsInto(c, Top(c).node.fallback, "fallback")
    ELSE Returns(c, Flatten(Then(FALSE, None)))

\* primary.is_target(href).then(|| primary.get_image_kind(..))
FbPrimary(c) ==
    /\ Active(c)
    /\ Top(c).node.node = "fallback"
    /\ Top(c).pc = "enter"
    /\ IF is_target(Top(c).node.primary, href[c])
       THEN CallsInto(c, Top(c).node.primary, "primary")
       ELSE IF or_else_runs(Flatten(Then(FALSE, None)))
            THEN OrElse(c)
            ELSE Returns(c, None)
    /\ UNCHANGED <<envVars, probeVars, hostVars, http, bridgeVars, cls>>

\* .flatten().or_else(..) once the primary has returned
FbPrimaryDone(c) ==
    /\ Active(c)
    /\ Top(c).node.node = "fallback"
    /\ Top(c).pc = "primary"
    /\ IsSome(ret[c])
    /\ LET o == Flatten(Then(TRUE, ret[c][1]))
       IN  IF or_else_runs(o) THEN OrElse(c) ELSE Returns(c, o)
    /\ UNCHANGED <<envVars, probeVars, hostVars, http, bridgeVars, cls>>

\* the or_else closure's value is the value of the whole expression
FbFallbackDone(c) ==
    /\ Active(c)
    /\ Top(c).node.node = "fallback"
    /\ Top(c).pc = "fallback"
    /\ IsSome(ret[c])
    /\ Returns(c, Flatten(Then(TRUE, ret[c][1])))
    /\ UNCHANGED <<envVars, probeVars, hostVars, http, bridgeVars, cls>>

(***************************************************************************)
(* Leaf strategies without HTTP                                            *)
(***************************************************************************)
\* any other implementation of the trait: returns a value or nothing
StubGetImageKind(c) ==
    /\ Active(c)
    /\ Top(c).node.node = "leaf"
    /\ Top(c).node.type = "Stub"
    /\ \E v \in {None, Some(StubValue(Top(c).node.id))} : Returns(c, v)
    /\ UNCHANGED <<envVars, probeVars, hostVars, http, bridgeVars, cls>>

DefaultGetImageKind(c) ==
    /\ Active(c)
    /\ Top(c).node.node = "leaf"
    /\ Top(c).node.type = "Default"
    /\ Returns(c, DefaultResolver_get_image_kind(href[c], files))
    /\ UNCHANGED <<envVars, probeVars, hostVars, http, bridgeVars, cls>>


(***************************************************************************)
(* src/reqwest_blocking.rs: BlockingReqwestResolver::get_image_kind        *)
(***************************************************************************)
\* send().ok()?, the content-type header, get_image_type(..)?
BlockingSend(c) ==
    /\ Active(c)
    /\ Top(c).node.node = "leaf"
    /\ Top(c).node.type = "Blocking"
    /\ Top(c).pc = "enter"
    /\ \E o \in server[href[c]] :
          LET t == IF o = None THEN None ELSE get_image_type(o[1].content_type, href[c])
          IN  /\ http' = [http EXCEPT ![c] = [resp |-> o, image_type |-> t, body |-> None]]
              /\ IF o = None \/ t = None
                 THEN Returns(c, None)
                 ELSE /\ stack' = [stack EXCEPT ![c] = SetPc(@, "bytes")]
                      /\ UNCHANGED <<ret, log>>
    /\ UNCHANGED <<envVars, probeVars, hostVars, bridgeVars, cls>>

\* resp.bytes().ok()?.to_vec(), image_type.to_image_kind(body.into(), options)
BlockingBytes(c) ==
    /\ Active(c)
    /\ Top(c).node.node = "leaf"
    /\ Top(c).node.type = "Blocking"
    /\ Top(c).pc = "bytes"
    /\ \E readOk \in BOOLEAN, parseOk \in BOOLEAN :
          IF readOk
          THEN LET body == http[c].resp[1].body
               IN  /\ http' = [http EXCEPT ![c].body = Some(body)]
                   /\ Returns(c, to_image_kind(http[c].image_type[1], body, parseOk))
          ELSE /\ http' = http
               /\ Returns(c, None)
    /\ UNCHANGED <<envVars, probeVars, hostVars, bridgeVars, cls>>

(***************************************************************************)
(* src/reqwest.rs, src/reqwest_middleware/mod.rs: the blocking bridge      *)
(***************************************************************************)
\* faulty variant: block_in_place blocks the thread on any runtime
BlockInPlaceNeverPanics(rt) == FALSE

\* tokio::task::block_in_place panics on a current_thread runtime
BlockInPlacePanics(rt) == rt = "current_thread"

\* the spawned task runs on a worker thread; a current_thread runtime has
\* only the thread the caller occupies
CanRunTask(c) == runtime = "multi_thread" \/ ~InCall(c)

\* faulty variant: one channel kept in the resolver and used by every call
ChannelShared(c) == "c1"

\* the channel whose sender the task of call c owns: the one created by the
\* same call and moved into the async block
ChannelOf(c) == c

\* faulty variant: the channel stays open after its sender is gone
DropSenderLeavesOpen(ch) == ch

\* the sender is dropped without having sent
DropSender(ch) == IF ch.state = "open" THEN [ch EXCEPT !.state = "closed"] ELSE ch

\* oneshot::channel(), client.clone(), href.to_string(), tokio::spawn(..)
AsyncSpawn(c) ==
    /\ Active(c)
    /\ IsAsyncBridge(Top(c).node)
    /\ Top(c).pc = "enter"
    /\ chan' = [chan EXCEPT ![c] = [state |-> "open", msg |-> None]]
    /\ task' = [task EXCEPT ![c] = [NoTask EXCEPT !.pc = "send", !.href = href[c]]]
    /\ stack' = [stack EXCEPT ![c] = SetPc(@, "block_in_place")]
    /\ UNCHANGED <<envVars, probeVars, hostVars, ret, log, http, cls>>

\* entering tokio::task::block_in_place
AsyncBlockInPlace(c) ==
    /\ Active(c)
    /\ IsAsyncBridge(Top(c).node)
    /\ Top(c).pc = "block_in_place"
    /\ IF BlockInPlacePanics(runtime)
       THEN /\ hostPc' = [hostPc EXCEPT ![c] = "panicked"]
            /\ stack' = [stack EXCEPT ![c] = << >>]
            /\ chan' = [chan EXCEPT ![c] =
                          IF @.state = "open" THEN [@ EXCEPT !.state = "rx_dropped"] ELSE @]
       ELSE /\ stack' = [stack EXCEPT ![c] = SetPc(@, "recv")]
            /\ UNCHANGED <<hostPc, chan>>
    /\ UNCHANGED <<envVars, probeVars, href, result, ret, log, http, task, cls>>

\* receiver.blocking_recv().ok()?, img_type.to_image_kind(body.into(), options)
AsyncRecv(c) ==
    /\ Active(c)
    /\ IsAsyncBridge(Top(c).node)
    /\ Top(c).pc = "recv"
    /\ chan[c].state \in {"sent", "closed"}
    /\ IF chan[c].state = "sent"
       THEN \E parseOk \in BOOLEAN :
               Returns(c, to_image_kind(chan[c].msg[1][1], chan[c].msg[1][2], parseOk))
       ELSE Returns(c, None)
    /\ chan' = [chan EXCEPT ![c] = [@ EXCEPT !.state = "rx_dropped"]]
    /\ UNCHANGED <<envVars, probeVars, hostVars, http, task, cls>>

\* the task: client.get(&href).send().await.ok()?, header, get_image_type(..)?
TaskSend(c) ==
    /\ task[c].pc = "send"
    /\ CanRunTask(c)
    /\ \E o \in server[task[c].href] :
          LET t == IF o = None THEN None
                   ELSE get_image_type(o[1].content_type, task[c].href)
          IN  IF o = None \/ t = None
              THEN /\ task' = [task EXCEPT ![c] =
                                  [@ EXCEPT !.pc = "done", !.resp = o, !.image_type = t]]
                   /\ chan' = [chan EXCEPT ![ChannelOf(c)] = DropSender(@)]
              ELSE /\ task' = [task EXCEPT ![c] =
                                  [@ EXCEPT !.pc = "bytes", !.resp = o, !.image_type = t]]
                   /\ UNCHANGED chan
    /\ UNCHANGED <<envVars, probeVars, hostVars, evalVars, http, cls>>

\* the task: resp.bytes().await.ok()?.to_vec(), sender.send((image_type, body)).ok()
TaskBytes(c) ==
    /\ task[c].pc = "bytes"
    /\ CanRunTask(c)
    /\ \E readOk \in BOOLEAN :
          LET body == task[c].resp[1].body
          IN  /\ task' = [task EXCEPT ![c] =
                             [@ EXCEPT !.pc = "done",
                                       !.body = IF readOk THEN Some(body) ELSE None]]
              /\ IF readOk /\ chan[ChannelOf(c)].state = "open"
                 THEN chan' = [chan EXCEPT ![ChannelOf(c)] =
                                 [state |-> "sent",
                                  msg |-> Some(<<task[c].image_type[1], body>>)]]
                 ELSE chan' = [chan EXCEPT ![ChannelOf(c)] = DropSender(@)]
    /\ UNCHANGED <<envVars, probeVars, hostVars, evalVars, http, cls>>

(***************************************************************************)
(* The resolvers a host builds, and the specification of one resolution    *)
(***************************************************************************)
StubLeaves(id) == {Stub(id, b) : b \in BOOLEAN}
HttpLeaves == {BlockingReqwestResolver, ReqwestResolver, ReqwestWithMiddlewareResolver}

Singles == StubLeaves("A") \cup HttpLeaves \cup {DefaultResolver}
Pairs == {with_fallback(a, b) :
             a \in StubLeaves("A")
                    \cup {BlockingReqwestResolver, ReqwestResolver, DefaultResolver},
             b \in StubLeaves("B") \cup {DefaultResolver}}
         \ {with_fallback(DefaultResolver, DefaultResolver)}
TripleInputs == (StubLeaves("A") \X StubLeaves("B") \X StubLeaves("C"))
                \cup ({ReqwestResolver} \X StubLeaves("B") \X {DefaultResolver})
Triples == {From3(t) : t \in TripleInputs}
LeftNested == {with_fallback(with_fallback(a, b), c) :
                  a \in StubLeaves("A"), b \in StubLeaves("B"), c \in StubLeaves("C")}
Resolvers == Singles \cup Pairs \cup Triples \cup LeftNested

RECURSIVE HasLeaf(_, _)
HasLeaf(r, types) ==
    IF r.node = "leaf" THEN r.type \in types
    ELSE HasLeaf(r.primary, types) \/ HasLeaf(r.fallback, types)

\* the async resolvers are called from inside a tokio runtime; the other
\* strategies from a plain thread
Runtimes(r) ==
    IF HasLeaf(r, {"Reqwest", "Middleware"}) THEN {"multi_thread", "current_thread"}
    ELSE {"none"}

\* only DefaultResolver reads the local files
Files(r) == IF HasLeaf(r, {"Default"}) THEN {NoFiles, OneFile} ELSE {NoFiles}

Init ==
    /\ resolver \in Resolvers
    /\ runtime \in Runtimes(resolver)
    /\ files \in Files(resolver)
    /\ server = AnyServer
    /\ installed = "none"
    /\ probes = 0
    /\ lastProbe = None
    /\ hostPc = [c \in Calls |-> IF c = "c1" THEN "idle" ELSE "off"]
    /\ \E h \in Hrefs : href = [c \in Calls |-> IF c = "c1" THEN h ELSE << >>]
    /\ result = [c \in Calls |-> None]
    /\ stack = [c \in Calls |-> << >>]
    /\ ret = [c \in Calls |-> None]
    /\ log = [c \in Calls |-> << >>]
    /\ http = [c \in Calls |-> NoFetch]
    /\ chan = [c \in Calls |-> NoChannel]
    /\ task = [c \in Calls |-> NoTask]
    /\ cls = ClsOff

Next ==
    \/ ProbeIsTarget
    \/ SetIntoOptions
    \/ \E c \in Calls :
          \/ InvokeClosure(c)
          \/ ClosureReturn(c)
          \/ InvokeDefaultFn(c)
          \/ CallGetImageKind(c)
          \/ GetImageKindReturn(c)
          \/ FbPrimary(c)
          \/ FbPrimaryDone(c)
          \/ FbFallbackDone(c)
          \/ StubGetImageKind(c)
          \/ DefaultGetImageKind(c)
          \/ BlockingSend(c)
          \/ BlockingBytes(c)
          \/ AsyncSpawn(c)
          \/ AsyncBlockInPlace(c)
          \/ AsyncRecv(c)
          \/ TaskSend(c)
          \/ TaskBytes(c)

Spec == Init /\ [][Next]_vars


(***************************************************************************)
(* Reading the event log                                                   *)
(***************************************************************************)
RECURSIVE Subtrees(_)
Subtrees(r) ==
    IF r.node = "leaf" THEN {r}
    ELSE {r} \cup Subtrees(r.primary) \cup Subtrees(r.fallback)

FallbackNodes == {n \in Subtrees(resolver) : n.node = "fallback"}
ActiveCalls == {c \in Calls : hostPc[c] # "off"}

CallAt(c, n) == {i \in DOMAIN log[c] : log[c][i].ev = "call" /\ log[c][i].who = n}
RetAt(c, n) == {i \in DOMAIN log[c] : log[c][i].ev = "ret" /\ log[c][i].who = n}
\* n.get_image_kind has returned nothing / a value before position i
ReturnedNoneBefore(c, n, i) == \E j \in RetAt(c, n) : j < i /\ log[c][j].val = None
ReturnedValue(c, n) == \E j \in RetAt(c, n) : log[c][j].val # None

(***************************************************************************)
(* C1: in FallbackResolver::get_image_kind the fallback's get_image_kind   *)
(* is invoked only if the primary did not claim the href, or claimed it    *)
(* and its get_image_kind had already returned nothing.  When the primary  *)
(* claimed the href and returned a value the fallback is not called at     *)
(* all, and every call of the primary has returned before a call of the    *)
(* fallback starts.                                                        *)
(***************************************************************************)
C1_FallbackOnlyAfterPrimary ==
    \A c \in ActiveCalls : \A F \in FallbackNodes :
        /\ \A i \in CallAt(c, F.fallback) :
              /\ \/ ~is_target(F.primary, href[c])
                 \/ ReturnedNoneBefore(c, F.primary, i)
              /\ \A j \in CallAt(c, F.primary) :
                    j < i /\ \E k \in RetAt(c, F.primary) : j < k /\ k < i
        /\ (is_target(F.primary, href[c]) /\ ReturnedValue(c, F.primary))
              => CallAt(c, F.fallback) = {}

\* the primary claimed and produced a value, the fallback claims the href
\* too, the pair has returned, and the fallback was never called
C1_Witness ==
    \E c \in ActiveCalls : \E F \in FallbackNodes :
        /\ is_target(F.primary, href[c])
        /\ is_target(F.fallback, href[c])
        /\ ReturnedValue(c, F.primary)
        /\ RetAt(c, F) # {}
        /\ CallAt(c, F.fallback) = {}


(***************************************************************************)
(* C3: in FallbackResolver::get_image_kind, if the primary claims the href *)
(* but its get_image_kind returns nothing and the fallback claims the      *)
(* href, the value returned is exactly what the fallback's get_image_kind  *)
(* returned (a value or nothing); each of the two get_image_kind is        *)
(* invoked at most once per call.                                          *)
(***************************************************************************)
C3_FallbackResultReturned ==
    \A c \in ActiveCalls : \A F \in FallbackNodes :
        /\ Cardinality(CallAt(c, F.primary)) <= 1
        /\ Cardinality(CallAt(c, F.fallback)) <= 1
        /\ \A i \in RetAt(c, F) :
              (/\ is_target(F.primary, href[c])
               /\ ReturnedNoneBefore(c, F.primary, i)
               /\ is_target(F.fallback, href[c]))
              => /\ Cardinality(RetAt(c, F.fallback)) = 1
                 /\ \E k \in RetAt(c, F.fallback) : k < i /\ log[c][k].val = log[c][i].val

\* the primary claimed and returned nothing, the fallback claimed and
\* returned a value, and the pair returned a value
C3_Witness ==
    \E c \in ActiveCalls : \E F \in FallbackNodes : \E i \in RetAt(c, F) :
        /\ is_target(F.primary, href[c])
        /\ ReturnedNoneBefore(c, F.primary, i)
        /\ is_target(F.fallback, href[c])
        /\ ReturnedValue(c, F.fallback)
        /\ log[c][i].val # None

(***************************************************************************)
(* C4: a FallbackResolver claims an href exactly when its primary or its   *)
(* fallback claims it; when neither claims it, is_target is false,         *)
(* get_image_kind returns nothing and neither member's get_image_kind is   *)
(* invoked.                                                                *)
(***************************************************************************)
C4_NeitherClaims ==
    \A F \in FallbackNodes :
        /\ \A h \in Hrefs :
              is_target(F, h) <=> (is_target(F.primary, h) \/ is_target(F.fallback, h))
        /\ \A c \in ActiveCalls :
              (~is_target(F.primary, href[c]) /\ ~is_target(F.fallback, href[c]))
              => /\ ~is_target(F, href[c])
                 /\ CallAt(c, F.primary) = {}
                 /\ CallAt(c, F.fallback) = {}
                 /\ \A i \in RetAt(c, F) : log[c][i].val = None

\* get_image_kind of a pair neither member of which claims the href has
\* been called and has returned
C4_Witness ==
    \E c \in ActiveCalls : \E F \in FallbackNodes :
        /\ ~is_target(F.primary, href[c])
        /\ ~is_target(F.fallback, href[c])
        /\ RetAt(c, F) # {}

(***************************************************************************)
(* C5: the chain built from the tuple (A, B, C) is                         *)
(* FallbackResolver(A, FallbackResolver(B, C)): A's get_image_kind is      *)
(* tried first, B's only if A declined or returned nothing, C's only if    *)
(* both A and B declined or returned nothing, and the result is the first  *)
(* value produced in the order A, B, C.                                    *)
(***************************************************************************)
\* the value n.get_image_kind returned in call c, nothing if it returned
\* nothing or was not called
ValueOf(c, n) ==
    IF ReturnedValue(c, n)
    THEN log[c][CHOOSE j \in RetAt(c, n) : log[c][j].val # None].val
    ELSE None

FirstValue(c, t) ==
    IF ValueOf(c, t[1]) # None THEN ValueOf(c, t[1])
    ELSE IF ValueOf(c, t[2]) # None THEN ValueOf(c, t[2])
    ELSE ValueOf(c, t[3])

DeclinedOrFailedBefore(c, n, i) ==
    ~is_target(n, href[c]) \/ ReturnedNoneBefore(c, n, i)

C5_ThreeWayChain ==
    \A t \in TripleInputs : resolver = From3(t) =>
        /\ resolver = FallbackResolver_new(t[1], FallbackResolver_new(t[2], t[3]))
        /\ \A c \in ActiveCalls :
              /\ \A i \in CallAt(c, t[2]) : DeclinedOrFailedBefore(c, t[1], i)
              /\ \A i \in CallAt(c, t[3]) :
                    DeclinedOrFailedBefore(c, t[1], i) /\ DeclinedOrFailedBefore(c, t[2], i)
              /\ \A i \in CallAt(c, t[1]) :
                    \A j \in CallAt(c, t[2]) \cup CallAt(c, t[3]) : i < j
              /\ \A i \in CallAt(c, t[2]) : \A j \in CallAt(c, t[3]) : i < j
              /\ \A i \in RetAt(c, resolver) : log[c][i].val = FirstValue(c, t)

\* A and B were both tried and returned nothing, C returned a value and the
\* chain returned it
C5_Witness ==
    \E t \in TripleInputs : \E c \in ActiveCalls :
        /\ resolver = From3(t)
        /\ \E i \in RetAt(c, t[1]) : log[c][i].val = None
        /\ \E i \in RetAt(c, t[2]) : log[c][i].val = None
        /\ ReturnedValue(c, t[3])
        /\ \E i \in RetAt(c, resolver) : log[c][i].val = ValueOf(c, t[3])


(***************************************************************************)
(* C6: for a declared content-type that is one of the five recognized MIME *)
(* values, get_image_type returns the tag of the declared type whatever    *)
(* the href is (no '.', or an extension naming another kind).              *)
(***************************************************************************)
TagOfMime(m) ==
    CASE m = "image/png" -> "Png"
      [] m = "image/jpeg" -> "Jpeg"
      [] m = "image/webp" -> "Webp"
      [] m = "image/gif" -> "Gif"
      [] m = "image/svg+xml" -> "Svg"

C6_DeclaredTypeWins ==
    (/\ cls.phase \in {"classified", "materialized"}
     /\ cls.content_type # None
     /\ cls.content_type[1] \in RecognizedMime)
    => cls.tag = Some(TagOfMime(cls.content_type[1]))

\* classified as PNG by the declared type although the href ends in .svg
C6_Witness ==
    /\ cls.phase = "classified"
    /\ cls.content_type = Some("image/png")
    /\ cls.href = <<"a", ".", "s", "v", "g">>
    /\ cls.tag = Some("Png")

(***************************************************************************)
(* C7: when the declared content-type is absent or not one of the five     *)
(* recognized values, get_image_type decides on the substring after the    *)
(* last '.' of the href, compared case-sensitively: png, jpg, jpeg, webp,  *)
(* gif, svg give their tag (jpg and jpeg both JPEG); an href without '.'   *)
(* or with another extension gives nothing.                                *)
(***************************************************************************)
HasDot(h) == \E i \in 1..Len(h) : h[i] = "."

\* the longest suffix of h that holds no '.'
AfterLastDot(h) ==
    LET n == CHOOSE k \in 0..Len(h) :
                /\ \A j \in (Len(h) - k + 1)..Len(h) : h[j] # "."
                /\ k < Len(h) => h[Len(h) - k] = "."
    IN  SubSeq(h, Len(h) - n + 1, Len(h))

TagOfExtension(h) ==
    IF ~HasDot(h) THEN None
    ELSE LET e == AfterLastDot(h)
         IN  IF e = <<"p", "n", "g">> THEN Some("Png")
             ELSE IF e = <<"j", "p", "g">> \/ e = <<"j", "p", "e", "g">> THEN Some("Jpeg")
             ELSE IF e = <<"w", "e", "b", "p">> THEN Some("Webp")
             ELSE IF e = <<"g", "i", "f">> THEN Some("Gif")
             ELSE IF e = <<"s", "v", "g">> THEN Some("Svg")
             ELSE None

C7_ExtensionDecides ==
    (/\ cls.phase \in {"classified", "materialized"}
     /\ \/ cls.content_type = None
        \/ cls.content_type[1] \notin RecognizedMime)
    => cls.tag = TagOfExtension(cls.href)

\* an unrecognized declared type and an href with two dots: the last
\* extension decides
C7_Witness ==
    /\ cls.phase = "classified"
    /\ cls.content_type = Some("IMAGE/PNG")
    /\ cls.href = <<"a", ".", "t", "x", "t", ".", "j", "p", "e", "g">>
    /\ cls.tag = Some("Jpeg")


(***************************************************************************)
(* What an HTTP-backed strategy fetched in call c                          *)
(***************************************************************************)
Fetched(c, n) ==
    IF n.type = "Blocking" THEN http[c]
    ELSE [resp |-> task[c].resp, image_type |-> task[c].image_type, body |-> task[c].body]

HttpNodes == {n \in Subtrees(resolver) : IsHttp(n)}

\* reqwest::StatusCode::is_success
IsSuccess(status) == status >= 200 /\ status < 300

(***************************************************************************)
(* C2: for an HTTP-backed strategy, a GET that completes with a            *)
(* non-success HTTP status makes get_image_kind return nothing, whatever   *)
(* the content-type header and the href's extension are; as the primary of *)
(* a FallbackResolver it then lets the fallback be consulted.              *)
(***************************************************************************)
C2_NonSuccessYieldsNothing ==
    \A c \in ActiveCalls : \A n \in HttpNodes : \A i \in RetAt(c, n) :
        (Fetched(c, n).resp # None /\ ~IsSuccess(Fetched(c, n).resp[1].status))
        => /\ log[c][i].val = None
           /\ \A F \in FallbackNodes :
                 (F.primary = n /\ is_target(F.fallback, href[c]) /\ RetAt(c, F) # {})
                 => CallAt(c, F.fallback) # {}

(***************************************************************************)
(* C8: get_image_kind of a blocking-bridge resolver (ReqwestResolver,      *)
(* ReqwestWithMiddlewareResolver) invoked on a current_thread runtime      *)
(* panics: it never returns a value or nothing, and it never waits on the  *)
(* channel for a task that cannot run.                                     *)
(***************************************************************************)
C8_CurrentThreadPanics ==
    \A c \in ActiveCalls : \A n \in Subtrees(resolver) :
        (runtime = "current_thread" /\ IsAsyncBridge(n) /\ CallAt(c, n) # {})
        => /\ RetAt(c, n) = {}
           /\ result[c] = None
           /\ hostPc[c] \in {"running", "direct", "panicked"}
           /\ InCall(c) => /\ stack[c] # << >>
                           /\ Top(c).node = n
                           /\ Top(c).pc \in {"enter", "block_in_place"}

\* the call was made on a current_thread runtime and has panicked
C8_Witness ==
    \E c \in ActiveCalls : \E n \in Subtrees(resolver) :
        /\ runtime = "current_thread"
        /\ IsAsyncBridge(n)
        /\ CallAt(c, n) # {}
        /\ hostPc[c] = "panicked"

(***************************************************************************)
(* C9: the callable made by into_fn returns nothing without invoking       *)
(* get_image_kind when is_target(href) is false, and otherwise returns     *)
(* exactly what get_image_kind(href, options) returned; DefaultResolver's  *)
(* own into_fn returns what is_target (always true) followed by            *)
(* get_image_kind would; calling is_target changes no state and always     *)
(* gives the same answer.                                                  *)
(***************************************************************************)
C9_Callable ==
    \A c \in ActiveCalls :
        /\ (installed = "closure" /\ hostPc[c] \in {"running", "done"})
              => IF ~is_target(resolver, href[c])
                 THEN /\ log[c] = << >>
                      /\ hostPc[c] = "done"
                      /\ result[c] = Some(None)
                 ELSE /\ log[c] # << >>
                      /\ log[c][1] = Event("call", resolver, None)
                      /\ Cardinality(CallAt(c, resolver)) = 1
                      /\ hostPc[c] = "done"
                            => /\ log[c][Len(log[c])].ev = "ret"
                               /\ log[c][Len(log[c])].who = resolver
                               /\ result[c] = Some(log[c][Len(log[c])].val)
        /\ (installed = "default_string_resolver" /\ hostPc[c] = "done")
              => /\ DefaultResolver_is_target(href[c])
                 /\ result[c] = Some(DefaultResolver_get_image_kind(href[c], files))
        /\ lastProbe # None
              => lastProbe[1][2] = is_target(resolver, lastProbe[1][1])

C9_IsTargetPure ==
    (probes' # probes) =>
        UNCHANGED <<envVars, installed, hostVars, evalVars, http, bridgeVars, cls>>

C9_IntoFn == []C9_Callable /\ [][C9_IsTargetPure]_vars

\* is_target was called directly, then the installed closure was invoked
\* with an href the resolver does not claim and returned nothing
C9_Witness ==
    \E c \in ActiveCalls :
        /\ installed = "closure"
        /\ probes > 0
        /\ hostPc[c] = "done"
        /\ ~is_target(resolver, href[c])
        /\ result[c] = Some(None)

(***************************************************************************)
(* C10: an HTTP-backed strategy that fetched a response with content-type  *)
(* image/png and read its body returns the PNG kind holding exactly the    *)
(* body's bytes; for the JPEG, PNG, GIF and WEBP tags to_image_kind always *)
(* succeeds with the fetched body as payload; for SVG it returns nothing   *)
(* or the tree of the whole body; no kind holds another payload.           *)
(***************************************************************************)
KindOfTag(tag) ==
    CASE tag = "Jpeg" -> "JPEG"
      [] tag = "Png" -> "PNG"
      [] tag = "Gif" -> "GIF"
      [] tag = "Webp" -> "WEBP"
      [] tag = "Svg" -> "SVG"

C10_PayloadIsBody ==
    \A c \in ActiveCalls : \A n \in HttpNodes : \A i \in RetAt(c, n) :
        LET v == log[c][i].val
            f == Fetched(c, n)
        IN  /\ v # None
                 => /\ f.resp # None
                    /\ f.image_type # None
                    /\ f.body = Some(f.resp[1].body)
                    /\ v[1].data = f.resp[1].body
                    /\ v[1].kind = KindOfTag(f.image_type[1])
                    /\ v[1].tree = (f.image_type[1] = "Svg")
            /\ (f.body # None /\ f.image_type[1] # "Svg")
                 => v = Some([kind |-> KindOfTag(f.image_type[1]), data |-> f.body[1],
                              tree |-> FALSE])
            /\ (f.body # None /\ f.resp[1].content_type = Some("image/png"))
                 => v = Some([kind |-> "PNG", data |-> f.resp[1].body, tree |-> FALSE])

\* a 200 response declared image/png with a non-empty body was fetched and
\* returned as PNG
C10_Witness ==
    \E c \in ActiveCalls : \E n \in HttpNodes : \E i \in RetAt(c, n) :
        /\ Fetched(c, n).resp # None
        /\ Fetched(c, n).resp[1].status = 200
        /\ Fetched(c, n).resp[1].content_type = Some("image/png")
        /\ Fetched(c, n).resp[1].body # << >>
        /\ log[c][i].val = Some([kind |-> "PNG", data |-> Fetched(c, n).resp[1].body,
                                 tree |-> FALSE])


(***************************************************************************)
(* The asynchronous bridge on a multi-threaded runtime                     *)
(***************************************************************************)
\* the strategies whose get_image_kind is the spawn / block_in_place /
\* blocking_recv bridge, alone and as the two sides of a fallback pair
BridgeResolvers ==
    {ReqwestResolver, ReqwestWithMiddlewareResolver,
     with_fallback(ReqwestResolver, ReqwestWithMiddlewareResolver)}

BridgeHrefs == {HrefHttpPng, HrefHttpNoExt}

\* #[tokio::test(flavor = "multi_thread")]: one resolution of one href
InitBridge ==
    /\ resolver \in BridgeResolvers
    /\ runtime = "multi_thread"
    /\ files = NoFiles
    /\ server = AnyServer
    /\ installed = "none"
    /\ probes = 0
    /\ lastProbe = None
    /\ hostPc = [c \in Calls |-> IF c = "c1" THEN "idle" ELSE "off"]
    /\ \E h \in BridgeHrefs : href = [c \in Calls |-> IF c = "c1" THEN h ELSE << >>]
    /\ result = [c \in Calls |-> None]
    /\ stack = [c \in Calls |-> << >>]
    /\ ret = [c \in Calls |-> None]
    /\ log = [c \in Calls |-> << >>]
    /\ http = [c \in Calls |-> NoFetch]
    /\ chan = [c \in Calls |-> NoChannel]
    /\ task = [c \in Calls |-> NoTask]
    /\ cls = ClsOff

\* the caller's side of the bridge and what surrounds it
CallerStep(c) ==
    \/ InvokeClosure(c)
    \/ ClosureReturn(c)
    \/ FbPrimary(c)
    \/ FbPrimaryDone(c)
    \/ FbFallbackDone(c)
    \/ AsyncSpawn(c)
    \/ AsyncBlockInPlace(c)
    \/ AsyncRecv(c)

\* the spawned task's side
TaskStep(c) ==
    \/ TaskSend(c)
    \/ TaskBytes(c)

NextBridge ==
    \/ SetIntoOptions
    \/ \E c \in Calls : CallerStep(c) \/ TaskStep(c)

\* The caller is a thread running straight-line code, and blocking_recv
\* returns as soon as the channel holds a value or its sender is gone: each
\* enabled caller step is eventually taken.  Nothing is assumed about the
\* task: the request has no timeout and may never complete.
FairBridge == \A c \in Calls : WF_vars(CallerStep(c))

SpecBridge == InitBridge /\ [][NextBridge]_vars /\ FairBridge

(***************************************************************************)
(* C11: on a multi-threaded runtime every get_image_kind call of the       *)
(* asynchronous bridge eventually returns once its background task has     *)
(* terminated.  If the task sent (tag, body) on the one-shot channel the    *)
(* caller returns that result materialized; if the task stopped early      *)
(* (transport error, unrecognized type, body-read error) without sending,  *)
(* the dropped sender wakes the blocked caller, which returns nothing.  At  *)
(* most one message is sent per call, and the caller does not stay blocked *)
(* after the task has finished.                                            *)
(***************************************************************************)
\* the bridge's get_image_kind of call c has spawned its task and not returned
BridgeWaiting(c) ==
    /\ Active(c)
    /\ IsAsyncBridge(Top(c).node)
    /\ Top(c).pc \in {"block_in_place", "recv"}

\* the task of call c went through every step and called sender.send
TaskSent(c) == task[c].pc = "done" /\ task[c].body # None

\* the task of call c returned early through one of its ? operators
TaskStoppedEarly(c) == task[c].pc = "done" /\ task[c].body = None

\* a step in which the bridge's get_image_kind of call c returns
BridgeReturnsIn(c) == BridgeWaiting(c) /\ ~BridgeWaiting(c)' /\ hostPc'[c] # "panicked"

\* what the caller may return: the task's pair materialized, or nothing
C11_ReturnMatchesTask(c) ==
    BridgeReturnsIn(c) =>
        /\ task[c].pc = "done"
        /\ TaskSent(c) =>
              \E parseOk \in BOOLEAN :
                  ret'[c] = Some(to_image_kind(task[c].image_type[1],
                                               task[c].resp[1].body, parseOk))
        /\ TaskStoppedEarly(c) => ret'[c] = Some(None)

\* a message enters the channel only while it is open and empty, in the
\* task's last step
C11_AtMostOneMessage(c) ==
    (chan'[c].msg # chan[c].msg /\ chan'[c].msg # None) =>
        /\ chan[c].state = "open"
        /\ chan[c].msg = None
        /\ task[c].pc = "bytes"
        /\ task'[c].pc = "done"

C11_BridgeReturns ==
    /\ [][\A c \in Calls : C11_ReturnMatchesTask(c) /\ C11_AtMostOneMessage(c)]_vars
    /\ \A c \in Calls : (BridgeWaiting(c) /\ task[c].pc = "done") ~> ~BridgeWaiting(c)

\* a finished resolution through the pair of two bridges: the first one's
\* task stopped early and it returned nothing, the second one's task sent
\* and it returned a value
C11_Witness ==
    \E c \in Calls :
        /\ hostPc[c] = "done"
        /\ resolver = with_fallback(ReqwestResolver, ReqwestWithMiddlewareResolver)
        /\ \E i \in RetAt(c, ReqwestResolver) : log[c][i].val = None
        /\ ReturnedValue(c, ReqwestWithMiddlewareResolver)
        /\ TaskSent(c)
        /\ chan[c].state = "rx_dropped"


(***************************************************************************)
(* Concurrent calls on one resolver                                        *)
(***************************************************************************)
\* the trait is Send + Sync and the callable is Fn + Send + Sync: one
\* resolver value, hence one client handle, serves both calls
ConcResolvers ==
    {ReqwestResolver, with_fallback(ReqwestWithMiddlewareResolver, DefaultResolver)}

\* the hrefs of the two calls: the same one, or two different ones
ConcHrefs ==
    {[c \in Calls |-> IF c = "c1" THEN HrefHttpPng ELSE h] : h \in {HrefHttpPng, HrefHttpsSvg}}

\* the document each href names: a body of its own, so that a value that
\* reached the wrong call is seen
BodyAt(h) == IF h = HrefHttpPng THEN <<0>> ELSE <<255>>

\* a server that answers each href with its own document under any status
\* and content-type, or not at all
ConcServer ==
    [h \in Hrefs |-> {None} \cup {Some(r) : r \in {x \in Responses : x.body = BodyAt(h)}}]

InitConc ==
    /\ resolver \in ConcResolvers
    /\ runtime = "multi_thread"
    /\ files = NoFiles
    /\ server = ConcServer
    /\ installed = "none"
    /\ probes = 0
    /\ lastProbe = None
    /\ hostPc = [c \in Calls |-> "idle"]
    /\ href \in ConcHrefs
    /\ result = [c \in Calls |-> None]
    /\ stack = [c \in Calls |-> << >>]
    /\ ret = [c \in Calls |-> None]
    /\ log = [c \in Calls |-> << >>]
    /\ http = [c \in Calls |-> NoFetch]
    /\ chan = [c \in Calls |-> NoChannel]
    /\ task = [c \in Calls |-> NoTask]
    /\ cls = ClsOff

NextConc ==
    \/ SetIntoOptions
    \/ \E c \in Calls :
          \/ CallerStep(c)
          \/ TaskStep(c)
          \/ DefaultGetImageKind(c)

SpecConc == InitConc /\ [][NextConc]_vars

(***************************************************************************)
(* C12: for any interleaving of concurrent get_image_kind calls on         *)
(* resolvers that share one HTTP client handle, each call returns the      *)
(* result derived from the response to its own href.  Every call uses its  *)
(* own one-shot channel and background task, so a call never receives      *)
(* another call's tag or body, and the resolver, the fallback pair and the *)
(* classifier hold no state that one call's outcome could change for       *)
(* another call.                                                           *)
(***************************************************************************)
BridgeLeaves == {n \in Subtrees(resolver) : n.node = "leaf" /\ IsAsyncBridge(n)}

\* what the bridge of call c may return, given the response its own task
\* got for the call's href
OwnOutcomes(c) ==
    IF TaskSent(c)
    THEN {to_image_kind(get_image_type(task[c].resp[1].content_type, href[c])[1],
                        task[c].resp[1].body, parseOk) : parseOk \in BOOLEAN}
    ELSE IF TaskStoppedEarly(c) THEN {None}
    ELSE {}

\* the bridge of call c returned a value of its own task, which fetched the
\* call's href; the callable's result is that value, or, when there is none
\* and the resolver is a pair, what the fallback yields
C12_OwnResult(c) ==
    /\ task[c].pc # "none" =>
          /\ task[c].href = href[c]
          /\ task[c].resp # None => task[c].resp \in server[href[c]]
    /\ \A n \in BridgeLeaves : \A i \in RetAt(c, n) : log[c][i].val \in OwnOutcomes(c)
    /\ hostPc[c] = "done" =>
          \E v \in OwnOutcomes(c) :
              result[c] = Some(IF v # None \/ resolver.node = "leaf" THEN v
                               ELSE DefaultResolver_get_image_kind(href[c], files))

\* the part of the state that belongs to call c
CallState(c) ==
    <<hostPc[c], href[c], result[c], stack[c], ret[c], log[c], http[c], chan[c], task[c]>>

\* a step belongs to one call and leaves the other call, the resolver and
\* the classifier's inputs as they were
C12_StepOfOneCall ==
    /\ \E c \in Calls : \A d \in Calls \ {c} : CallState(d)' = CallState(d)
    /\ UNCHANGED <<envVars, cls>>

C12_CallsIsolated == (\A c \in Calls : []C12_OwnResult(c)) /\ [][C12_StepOfOneCall]_vars

\* both calls are over, for two different hrefs, and each returned the
\* document of its own href
C12_Witness ==
    /\ href["c1"] # href["c2"]
    /\ \A c \in Calls :
          /\ hostPc[c] = "done"
          /\ result[c] # Some(None)
          /\ result[c][1][1].data = BodyAt(href[c])

====
